---- MODULE Spec2Model ----
(***************************************************************************)
(* Voter-Auth: the verification endpoints of backend/app.py (verify-id,    *)
(* verify-face, verify-iris, cast-vote), the SQL rows they read and write  *)
(* (Voter, VoteRecord, FraudAttempt) and the in-memory ledger of           *)
(* backend/blockchain_integration.py (demo_storage).                       *)
(*                                                                         *)
(* Spec       : every request handler runs to completion as one step.      *)
(* SpecConc   : the handlers of one voter run in two server threads and    *)
(*              interleave at their database commits and ledger calls.     *)
(* SpecTwo    : two voters, each served by a thread of its own.            *)
(* SpecEnrol  : two threads serve a voter enrolled without templates.      *)
(* SpecMatcher: verify_face_with_liveness called alone.                    *)
(* SpecLedger : the ledger object's methods called alone.                  *)
(***************************************************************************)
EXTENDS Integers, Sequences, FiniteSets, TLC

\* ------------------------------------------------------------------ bounds
MaxClock == 1
MaxFraud == 1
MaxVotes == 2

\* --------------------------------------------------------------- directory
Voters == {"v1", "v2"}
Unknown == "v0"
Blank == ""
Booths == {1, 2}
BoothOf == [v \in Voters |-> 1]

\* Python None for a DateTime column / an isoformat string, and for a hash
NoTime == 0 - 1
NoHash == <<>>

\* ------------------------------------------------------ policy thresholds
\* face confidence and similarity are counted in units of 1/300, so that the
\* 1.5 boost of compare_faces_basic and all cut-offs are whole numbers
FaceScale == 300
FaceThreshold == 282
SimBoost == 60
SimFallback == 30
FallbackConfidence == 150
\* liveness is counted in thousandths
LivenessThreshold == 300
HeadWeight == 300
BlinkFull == 400
BlinkPartial == 200
\* the cut-offs behind the two flags of verification_details
FaceReportThreshold == 225
LivenessReportThreshold == 500
\* iris distance and confidence are counted in hundredths
IrisEyeThreshold == 30
IrisThreshold == 85
IrisDemoConfidence == 92

Min(a, b) == IF a < b THEN a ELSE b
Max(a, b) == IF a > b THEN a ELSE b

VARIABLES voters, voteRecords, fraud, demo_storage, clock, resp, threads

vars == <<voters, voteRecords, fraud, demo_storage, clock, resp, threads>>

\* ------------------------------------------------------------- SQL models
\* class Voter: the columns the endpoints read or write
NewVoter(enc, tpl) ==
  [has_voted |-> FALSE, voted_at |-> NoTime, face_encoding |-> enc, iris_template |-> tpl]

\* class VoteRecord: a row as inserted by verify_voter_id (column defaults)
NewVoteRecord(v, b) ==
  [voter_uuid |-> v, voter_id |-> v, polling_booth_id |-> b,
   id_verified |-> FALSE, face_verified |-> FALSE, iris_verified |-> FALSE,
   blockchain_hash |-> NoHash, verification_completed |-> NoTime, vote_cast_at |-> NoTime]

\* class FraudAttempt
NewFraud(v, b, kind) == [voter_id |-> v, attempted_booth_id |-> b, fraud_type |-> kind]

\* a VoteRecord query that takes the first row of the table, whoever owns it
FirstRecordOfAny(recs, v) == IF Len(recs) = 0 THEN 0 ELSE 1

\* VoteRecord.query.filter_by(voter_uuid=..).first(): index of the first row, 0 if none
FirstRecord(recs, v) ==
  LET idx == {i \in 1..Len(recs) : recs[i].voter_uuid = v}
  IN IF idx = {} THEN 0 ELSE CHOOSE i \in idx : \A j \in idx : i <= j

\* VoteRecord.query.filter_by(voter_uuid=.., polling_booth_id=..).first()
FirstRecordAt(recs, v, b) ==
  LET idx == {i \in 1..Len(recs) : recs[i].voter_uuid = v /\ recs[i].polling_booth_id = b}
  IN IF idx = {} THEN 0 ELSE CHOOSE i \in idx : \A j \in idx : i <= j

\* Voter.query.filter_by(voter_id=.., polling_booth_id=..).first() finds a row
VoterAt(v, b) == v \in Voters /\ BoothOf[v] = b

\* ----------------------------------------------------------------- ledger
\* demo_storage = {} : no "vote_", "voter_" or "booth_stats_" key
EmptyStorage ==
  [vote |-> [v \in {} |-> 0], voter |-> [v \in {} |-> 0], booth_stats |-> [b \in {} |-> 0]]

\* the default of demo_storage.get(vote_record_key, {...})
DefaultVoteRecord(v, b, now) ==
  [voter_uuid |-> v, voter_id |-> v, polling_booth_id |-> b, timestamp |-> now,
   id_verified |-> FALSE, face_verified |-> FALSE, iris_verified |-> FALSE,
   vote_cast |-> FALSE, blockchain_hash |-> NoHash, previous_hash |-> NoHash]

\* the default of demo_storage.get(voter_status_key, {...})
DefaultVoterStatus(v, b) ==
  [voter_uuid |-> v, voter_id |-> v, has_voted |-> FALSE, voted_at |-> NoTime,
   polling_booth_id |-> b]

\* _generate_hash: SHA-256 of the sorted-key JSON of the record without its two
\* hash fields; the digest is modelled by the serialized fields themselves
\* (two records collide only when every hashed field agrees)
GenerateHash(rec) ==
  <<rec.face_verified, rec.id_verified, rec.iris_verified, rec.polling_booth_id,
    rec.timestamp, rec.vote_cast, rec.voter_id, rec.voter_uuid>>

\* get_vote_record / get_voter_status: None when the key is absent
HasVoteRecord(ds, v) == v \in DOMAIN ds.vote
HasVoterStatus(ds, v) == v \in DOMAIN ds.voter

\* get_booth_stats(...)['total_votes'], 0 when the key is absent
TotalVotes(ds, b) == IF b \in DOMAIN ds.booth_stats THEN ds.booth_stats[b].total_votes ELSE 0

\* _update_booth_stats
UpdateBoothStats(ds, b, now) ==
  [ds EXCEPT !.booth_stats =
     (b :> [booth_id |-> b, total_votes |-> TotalVotes(ds, b) + 1, last_updated |-> now]) @@ @]

Steps == {"id_verification", "face_verification", "iris_verification", "vote_cast"}

\* the flag a verification step sets in the ledger's vote record
ApplyStep(rec, step) ==
  CASE step = "id_verification"   -> [rec EXCEPT !.id_verified = TRUE]
    [] step = "face_verification" -> [rec EXCEPT !.face_verified = TRUE]
    [] step = "iris_verification" -> [rec EXCEPT !.iris_verified = TRUE]
    [] OTHER                      -> [rec EXCEPT !.vote_cast = TRUE]

\* the refusals of _demo_record_verification
LedgerRefuses(rec, status, step) ==
  \/ status.has_voted /\ step # "vote_cast"
  \/ step = "vote_cast" /\ ~(rec.id_verified /\ rec.face_verified /\ rec.iris_verified)
  \/ step \notin Steps

\* a ledger that fetches its two dicts with setdefault(): they are stored on
\* entry, before the refusals are checked
DemoRecordVerificationStoring(ds, rec, status, v, b, step, now, later) ==
  LET ds0 == [ds EXCEPT !.vote = (v :> rec) @@ @, !.voter = (v :> status) @@ @]
  IN IF LedgerRefuses(rec, status, step)
     THEN [success |-> FALSE, blockchain_hash |-> NoHash, storage |-> ds0]
     ELSE LET rec1 == ApplyStep(rec, step)
              h    == GenerateHash(rec1)
              rec2 == [rec1 EXCEPT !.blockchain_hash = h, !.timestamp = later]
          IN [success |-> TRUE, blockchain_hash |-> h,
              storage |-> [ds0 EXCEPT !.vote = (v :> rec2) @@ @]]

\* _demo_record_verification from line 106 on, working on the two dicts its
\* get() calls returned (rec, status): the refusals, the flag update, the hash
\* taken before the timestamp is overwritten, the two stores and the booth
\* statistics. now is utcnow() at voted_at, later is utcnow() at line 139.
\* Result: the returned dict and the storage afterwards.
DemoRecordVerificationOn(ds, rec, status, v, b, step, now, later) ==
  IF LedgerRefuses(rec, status, step)
  THEN [success |-> FALSE, blockchain_hash |-> NoHash, storage |-> ds]
  ELSE LET rec1    == ApplyStep(rec, step)
           status1 == IF step = "vote_cast"
                      THEN [status EXCEPT !.has_voted = TRUE, !.voted_at = now]
                      ELSE status
           h       == GenerateHash(rec1)
           rec2    == [rec1 EXCEPT !.blockchain_hash = h, !.timestamp = later]
           ds1     == [ds EXCEPT !.vote = (v :> rec2) @@ @, !.voter = (v :> status1) @@ @]
           ds2     == IF step = "vote_cast" THEN UpdateBoothStats(ds1, b, later) ELSE ds1
       IN [success |-> TRUE, blockchain_hash |-> h, storage |-> ds2]

\* record_vote_verification -> _demo_record_verification(voter_uuid, voter_id,
\* booth_id, step), run without interruption: the get() calls of lines 83
\* and 98 (now is utcnow() on entry), then the rest
DemoRecordVerification(ds, v, b, step, now, later) ==
  DemoRecordVerificationOn(ds,
    IF HasVoteRecord(ds, v) THEN ds.vote[v] ELSE DefaultVoteRecord(v, b, now),
    IF HasVoterStatus(ds, v) THEN ds.voter[v] ELSE DefaultVoterStatus(v, b),
    v, b, step, now, later)

\* verify_vote_integrity
VerifyVoteIntegrity(ds, v) ==
  /\ HasVoteRecord(ds, v)
  /\ ds.vote[v].blockchain_hash = GenerateHash(ds.vote[v])

\* get_vote_history(voter_id): the stored vote records carrying that voter_id
GetVoteHistory(ds, voter_id) ==
  {ds.vote[u] : u \in {x \in DOMAIN ds.vote : ds.vote[x].voter_id = voter_id}}

\* ------------------------------------------------------------ OCR (reader)
\* str.upper() on the identifiers that occur
Upper(s) ==
  CASE s = "v1" -> "V1" [] s = "v2" -> "V2" [] s = "v0" -> "V0" [] OTHER -> s

\* what a request carries as id_card_image, and what process_voter_id_card
\* returns for it: no image, a failed read, or a read with the extracted id
OcrInputs ==
  {[image |-> FALSE, success |-> FALSE, voter_id |-> Blank],
   [image |-> TRUE, success |-> FALSE, voter_id |-> Blank]}
  \cup {[image |-> TRUE, success |-> TRUE, voter_id |-> x] : x \in {"V1", "v2"}}

\* an OCR gate that asks for a successful read only, not for the read id
OcrGateSuccessOnly(voter_id, ocr) ==
  IF ~ocr.image THEN "pass"
  ELSE IF ~ocr.success THEN "ocr_failed"
  ELSE "pass"

\* the OCR gate of verify_voter_id: "" when it lets the request through
OcrGate(voter_id, ocr) ==
  IF ~ocr.image THEN "pass"
  ELSE IF ~ocr.success THEN "ocr_failed"
  ELSE IF ocr.voter_id # Blank /\ Upper(ocr.voter_id) # Upper(voter_id) THEN "mismatch"
  ELSE "pass"

\* ----------------------------------------------------------- face matcher
\* stored templates: none, the one enrolled with the voter, one minted from a capture
NoTemplate == "none"
Enrolled == "enrolled"
Captured == "captured"

\* liveness_data of a request: headMovement, blinkCount, score (thousandths)
LivenessInputs ==
  {[headMovement |-> TRUE,  blinkCount |-> 0, score |-> 0],
   [headMovement |-> FALSE, blinkCount |-> 1, score |-> 300]}

\* similarities (1/300) of the live capture to the stored encoding
FaceSims == {20, 186, 188}

\* a face capture: whether a face is detected and encoded in it, its similarity
\* to the stored encoding, the best similarity to the voter's reference images
\* on disk (refs FALSE: no such images), and the liveness data sent with it
FaceInputs ==
  {[detect |-> FALSE, sim |-> 20, refs |-> FALSE, refsim |-> 20, live |-> l] :
     l \in {[headMovement |-> TRUE, blinkCount |-> 0, score |-> 0]}}
  \cup {[detect |-> TRUE, sim |-> s, refs |-> FALSE, refsim |-> 20, live |-> l] :
     s \in FaceSims, l \in LivenessInputs}
  \cup {[detect |-> TRUE, sim |-> 188, refs |-> TRUE, refsim |-> r, live |-> l] :
     r \in FaceSims, l \in LivenessInputs}

\* compare_faces_basic(known, unknown) with similarity sim between the two
CompareFacesBasic(knownIsNone, sim) ==
  IF knownIsNone
  THEN [is_match |-> FALSE, similarity |-> 0, confidence |-> 0]
  ELSE IF sim > SimBoost
  THEN [is_match |-> TRUE, similarity |-> sim, confidence |-> Min(FaceScale, (sim * 3) \div 2)]
  ELSE IF sim > SimFallback
  THEN [is_match |-> TRUE, similarity |-> sim, confidence |-> FallbackConfidence]
  ELSE [is_match |-> FALSE, similarity |-> sim, confidence |-> sim]

\* FaceVerificationSystem.verify_face(stored_encoding, live_image)
VerifyFaceBasic(storedIsNone, detect, sim) ==
  IF ~detect
  THEN [success |-> FALSE, verified |-> FALSE, confidence |-> 0, similarity |-> 0]
  ELSE LET c == CompareFacesBasic(storedIsNone, sim)
           ok == c.is_match /\ c.confidence >= SimBoost
           forced == ~ok /\ c.similarity > SimFallback
       IN [success |-> TRUE, verified |-> ok \/ forced,
           confidence |-> IF forced THEN FallbackConfidence ELSE c.confidence,
           similarity |-> c.similarity]

\* the weighted liveness sum of verify_face_with_liveness
LivenessScore(l) ==
  (IF l.headMovement THEN HeadWeight ELSE 0)
  + (IF l.blinkCount >= 2 THEN BlinkFull ELSE IF l.blinkCount >= 1 THEN BlinkPartial ELSE 0)
  + (l.score * 3) \div 10

\* FaceVerificationSystem.verify_face_with_liveness
VerifyFaceWithLiveness(storedIsNone, detect, sim, l) ==
  LET f == VerifyFaceBasic(storedIsNone, detect, sim)
      ls == LivenessScore(l)
      final == f.verified /\ f.confidence >= FaceThreshold /\ ls >= LivenessThreshold
  IN IF ~f.success
     THEN [success |-> FALSE, verified |-> FALSE, face_confidence |-> 0, liveness_score |-> 0]
     ELSE [success |-> TRUE, verified |-> final, face_confidence |-> f.confidence,
           liveness_score |-> ls]

\* the verification_details of verify_face_with_liveness's result
VerificationDetails(storedIsNone, detect, sim, l) ==
  LET f == VerifyFaceBasic(storedIsNone, detect, sim)
      r == VerifyFaceWithLiveness(storedIsNone, detect, sim, l)
  IN [face_threshold_met     |-> f.confidence >= FaceReportThreshold,
      liveness_threshold_met |-> LivenessScore(l) >= LivenessReportThreshold,
      overall_passed         |-> r.verified]

\* FaceVerificationSystem.match_face_from_storage
MatchFaceFromStorage(ev) ==
  IF ~ev.refs THEN [success |-> FALSE, verified |-> FALSE, confidence |-> 0]
  ELSE LET r == VerifyFaceBasic(FALSE, ev.detect, ev.refsim)
           best == IF r.success /\ r.confidence > 0 THEN r.confidence ELSE 0
       IN [success |-> TRUE, verified |-> best >= FaceThreshold, confidence |-> best]

\* the matcher part of verify_face (app.py): which branch runs, the encoding
\* the voter row holds afterwards, and the face_result the decision reads.
\* error: encode_face_for_storage failed and the handler returns 400.
FaceResult(stored, ev) ==
  IF stored # NoTemplate
  THEN [error |-> FALSE, encoding |-> stored,
        result |-> VerifyFaceWithLiveness(FALSE, ev.detect, ev.sim, ev.live)]
  ELSE LET m == MatchFaceFromStorage(ev)
       IN IF m.success /\ m.verified
          THEN [error |-> FALSE, encoding |-> stored,
                result |-> [VerifyFaceWithLiveness(TRUE, ev.detect, ev.sim, ev.live)
                              EXCEPT !.face_confidence = m.confidence]]
          ELSE IF ~ev.detect
          THEN [error |-> TRUE, encoding |-> stored,
                result |-> VerifyFaceWithLiveness(TRUE, FALSE, 0, ev.live)]
          ELSE [error |-> FALSE, encoding |-> Captured,
                result |-> VerifyFaceWithLiveness(FALSE, TRUE, FaceScale, ev.live)]

\* ----------------------------------------------------------- iris matcher
\* an iris capture: whether eyes are found at all, and per eye whether a
\* template could be made and its distance (hundredths) to the stored one
IrisDistances == {14, 15}
IrisEyes == {[ok |-> FALSE, distance |-> 100]} \cup {[ok |-> TRUE, distance |-> d] : d \in IrisDistances}
IrisInputs ==
  {[detect |-> FALSE, left_eye |-> e, right_eye |-> e] : e \in {[ok |-> FALSE, distance |-> 100]}}
  \cup {[detect |-> TRUE, left_eye |-> l, right_eye |-> r] : l \in IrisEyes, r \in IrisEyes}
  \cup {[detect |-> TRUE, left_eye |-> [ok |-> TRUE, distance |-> IrisEyeThreshold], right_eye |-> r] :
          r \in {[ok |-> TRUE, distance |-> 14]}}

\* the per-eye result of IrisRecognitionSystem.verify_iris
EyeResult(e) ==
  [success |-> e.ok, verified |-> e.ok /\ e.distance < IrisEyeThreshold,
   confidence |-> IF e.ok /\ e.distance < IrisEyeThreshold THEN 100 - e.distance ELSE 0]

\* IrisRecognitionSystem.verify_iris(stored_template, live_image)
VerifyIrisTemplate(ev) ==
  LET l == EyeResult(ev.left_eye)
      r == EyeResult(ev.right_eye)
      any == (l.success /\ l.verified) \/ (r.success /\ r.verified)
  IN IF ~ev.detect THEN [success |-> FALSE, verified |-> FALSE, confidence |-> 0]
     ELSE [success |-> TRUE, verified |-> any,
           confidence |-> IF any THEN Max(l.confidence, r.confidence) ELSE 0]

\* the matcher part of verify_iris (app.py)
IrisResult(stored, ev) ==
  IF stored # NoTemplate
  THEN [error |-> FALSE, template |-> stored, result |-> VerifyIrisTemplate(ev)]
  ELSE IF ~ev.detect \/ (~ev.left_eye.ok /\ ~ev.right_eye.ok)
  THEN [error |-> TRUE, template |-> stored,
        result |-> [success |-> FALSE, verified |-> FALSE, confidence |-> 0]]
  ELSE [error |-> FALSE, template |-> Captured,
        result |-> [success |-> TRUE, verified |-> TRUE, confidence |-> IrisDemoConfidence]]

\* ------------------------------------------------------- request handlers
\* jsonify(...) and the status code of a handler's return
Reply(op, v, code, h) == [op |-> op, voter |-> v, code |-> code, blockchain_hash |-> h]
NoReply == Reply("none", Unknown, 0, NoHash)

\* the server's request threads (app.run: one thread per request). A thread
\* holds the locals of the handler it runs: the voter and booth of the request,
\* the VoteRecord row its query returned (idx), the utcnow() it took (at), the
\* ledger result it got (hash), and inside the ledger call the two dicts its
\* get() calls returned (view): the dicts held by the storage ("store") or
\* dicts of its own ("own"), the defaults built because the keys were absent
\* or dicts that another thread's store has replaced in the storage since
Threads == {"t1", "t2"}
NoView == [kind |-> "none", vote |-> DefaultVoteRecord(Unknown, 0, NoTime),
           voter |-> DefaultVoterStatus(Unknown, 0)]
StoredView == [NoView EXCEPT !.kind = "store"]
OwnView(rec, status) == [kind |-> "own", vote |-> rec, voter |-> status]
Idle == [pc |-> "idle", voter |-> Unknown, booth |-> 0, idx |-> 0, at |-> NoTime,
         hash |-> NoHash, view |-> NoView]

\* the requests clients send: every kind of evidence for voter v1, and requests
\* that name no voter (Blank) or an unregistered one (Unknown)
Requested == {"v1"}
Strangers == {Unknown, Blank}
NoImage == [image |-> FALSE, success |-> FALSE, voter_id |-> Blank]
IdRequests ==
  {<<v, b, o>> : v \in Requested, b \in Booths, o \in OcrInputs}
  \cup {<<v, 1, NoImage>> : v \in Strangers}
FaceRequests ==
  {<<v, e>> : v \in Requested, e \in FaceInputs}
  \cup {<<v, e>> : v \in Strangers, e \in {x \in FaceInputs : ~x.detect}}
IrisRequests ==
  {<<v, e>> : v \in Requested, e \in IrisInputs}
  \cup {<<v, e>> : v \in Strangers, e \in {x \in IrisInputs : ~x.detect}}
CastRequests == Requested \cup Strangers

\* utcnow() read a second time in the same request: the clock may have moved
Later == {t \in {clock, clock + 1} : t <= MaxClock}

\* verify_voter_id, "Create or update vote record" up to the commit: the rows
\* after the commit, idx being what the handler's query returned (0: no row)
CommitIdVerified(recs, idx, v, b) ==
  IF idx = 0
  THEN Append(recs, [NewVoteRecord(v, b) EXCEPT !.id_verified = TRUE])
  ELSE [recs EXCEPT ![idx].id_verified = TRUE]

\* verify_face: vote_record.face_verified = True; commit
CommitFaceVerified(recs, idx) == [recs EXCEPT ![idx].face_verified = TRUE]

\* verify_iris: vote_record.iris_verified = True; verification_completed = utcnow(); commit
CommitIrisVerified(recs, idx, now) ==
  [recs EXCEPT ![idx].iris_verified = TRUE, ![idx].verification_completed = now]

\* cast_vote: the VoteRecord columns written by the final commit
CommitVoteCast(recs, idx, now, h) ==
  [recs EXCEPT ![idx].vote_cast_at = now, ![idx].blockchain_hash = h]

\* cast_vote: the Voter columns written by the final commit
MarkVoted(vs, v, now) == [vs EXCEPT ![v].has_voted = TRUE, ![v].voted_at = now]

\* a verify_voter_id that never takes the already-voted branch
NeverVoted(vs, v) == FALSE

\* verify_voter_id: if voter.has_voted
AlreadyVoted(vs, v) == vs[v].has_voted

\* verify_face: if not vote_record or not vote_record.id_verified
IdStepMissing(recs, idx) == idx = 0 \/ ~recs[idx].id_verified

\* a verify_iris that asks only for a session row, not for its face flag
FaceStepMissingRowOnly(recs, idx) == idx = 0

\* verify_iris: if not vote_record or not vote_record.face_verified
FaceStepMissing(recs, idx) == idx = 0 \/ ~recs[idx].face_verified

\* cast_vote: if not vote_record or not vote_record.iris_verified
IrisStepMissing(recs, idx) == idx = 0 \/ ~recs[idx].iris_verified

\* a verify_face that takes every matcher result as a pass
FaceAcceptedAlways(result) == TRUE

\* the decision of verify_face on the matcher's result
FaceAccepted(result) == result.verified

\* a verify_iris that accepts a confidence equal to the threshold
IrisAcceptedInclusive(result) == result.verified /\ result.confidence >= IrisThreshold

\* the decision of verify_iris on the matcher's result
IrisAccepted(result) == result.verified /\ result.confidence > IrisThreshold

\* POST /api/voter/verify-id
VerifyVoterId(voter_id, booth_id, ocr) ==
  /\ UNCHANGED threads
  /\ IF voter_id = Blank \/ OcrGate(voter_id, ocr) # "pass"
     THEN /\ resp' = Reply("verify_id", voter_id, 400, NoHash)
          /\ UNCHANGED <<voters, voteRecords, fraud, demo_storage, clock>>
     ELSE IF ~VoterAt(voter_id, booth_id)
     THEN /\ resp' = Reply("verify_id", voter_id, 404, NoHash)
          /\ UNCHANGED <<voters, voteRecords, fraud, demo_storage, clock>>
     ELSE IF AlreadyVoted(voters, voter_id)
     THEN /\ Len(fraud) < MaxFraud
          /\ fraud' = Append(fraud, NewFraud(voter_id, booth_id, "duplicate_vote"))
          /\ resp' = Reply("verify_id", voter_id, 403, NoHash)
          /\ UNCHANGED <<voters, voteRecords, demo_storage, clock>>
     ELSE \E later \in Later :
            LET idx == FirstRecordAt(voteRecords, voter_id, booth_id)
                r == DemoRecordVerification(demo_storage, voter_id, booth_id,
                                            "id_verification", clock, later)
            IN /\ voteRecords' = CommitIdVerified(voteRecords, idx, voter_id, booth_id)
               /\ demo_storage' = r.storage
               /\ clock' = later
               /\ resp' = Reply("verify_id", voter_id, 200, r.blockchain_hash)
               /\ UNCHANGED <<voters, fraud>>

\* POST /api/voter/verify-face
VerifyFace(voter_uuid, ev) ==
  /\ UNCHANGED threads
  /\ IF voter_uuid = Blank
     THEN /\ resp' = Reply("verify_face", voter_uuid, 400, NoHash)
          /\ UNCHANGED <<voters, voteRecords, fraud, demo_storage, clock>>
     ELSE IF voter_uuid \notin Voters
     THEN /\ resp' = Reply("verify_face", voter_uuid, 404, NoHash)
          /\ UNCHANGED <<voters, voteRecords, fraud, demo_storage, clock>>
     ELSE LET idx == FirstRecord(voteRecords, voter_uuid)
          IN IF IdStepMissing(voteRecords, idx)
             THEN /\ resp' = Reply("verify_face", voter_uuid, 400, NoHash)
                  /\ UNCHANGED <<voters, voteRecords, fraud, demo_storage, clock>>
             ELSE LET fr == FaceResult(voters[voter_uuid].face_encoding, ev)
                      booth == voteRecords[idx].polling_booth_id
                  IN IF fr.error
                     THEN /\ resp' = Reply("verify_face", voter_uuid, 400, NoHash)
                          /\ UNCHANGED <<voters, voteRecords, fraud, demo_storage, clock>>
                     ELSE /\ voters' = [voters EXCEPT ![voter_uuid].face_encoding = fr.encoding]
                          /\ IF ~fr.result.success
                             THEN /\ resp' = Reply("verify_face", voter_uuid, 400, NoHash)
                                  /\ UNCHANGED <<voteRecords, fraud, demo_storage, clock>>
                             ELSE IF FaceAccepted(fr.result)
                             THEN \E later \in Later :
                                    LET r == DemoRecordVerification(demo_storage, voter_uuid, booth,
                                                                    "face_verification", clock, later)
                                    IN /\ voteRecords' = CommitFaceVerified(voteRecords, idx)
                                       /\ demo_storage' = r.storage
                                       /\ clock' = later
                                       /\ resp' = Reply("verify_face", voter_uuid, 200, r.blockchain_hash)
                                       /\ UNCHANGED fraud
                             ELSE /\ Len(fraud) < MaxFraud
                                  /\ fraud' = Append(fraud, NewFraud(voter_uuid, booth, "identity_mismatch"))
                                  /\ resp' = Reply("verify_face", voter_uuid, 403, NoHash)
                                  /\ UNCHANGED <<voteRecords, demo_storage, clock>>

\* POST /api/voter/verify-iris
VerifyIris(voter_uuid, ev) ==
  /\ UNCHANGED threads
  /\ IF voter_uuid = Blank
     THEN /\ resp' = Reply("verify_iris", voter_uuid, 400, NoHash)
          /\ UNCHANGED <<voters, voteRecords, fraud, demo_storage, clock>>
     ELSE IF voter_uuid \notin Voters
     THEN /\ resp' = Reply("verify_iris", voter_uuid, 404, NoHash)
          /\ UNCHANGED <<voters, voteRecords, fraud, demo_storage, clock>>
     ELSE LET idx == FirstRecord(voteRecords, voter_uuid)
          IN IF FaceStepMissing(voteRecords, idx)
             THEN /\ resp' = Reply("verify_iris", voter_uuid, 400, NoHash)
                  /\ UNCHANGED <<voters, voteRecords, fraud, demo_storage, clock>>
             ELSE LET ir == IrisResult(voters[voter_uuid].iris_template, ev)
                      booth == voteRecords[idx].polling_booth_id
                  IN IF ir.error
                     THEN /\ resp' = Reply("verify_iris", voter_uuid, 400, NoHash)
                          /\ UNCHANGED <<voters, voteRecords, fraud, demo_storage, clock>>
                     ELSE /\ voters' = [voters EXCEPT ![voter_uuid].iris_template = ir.template]
                          /\ IF ~ir.result.success
                             THEN /\ resp' = Reply("verify_iris", voter_uuid, 400, NoHash)
                                  /\ UNCHANGED <<voteRecords, fraud, demo_storage, clock>>
                             ELSE IF IrisAccepted(ir.result)
                             THEN \E later \in Later :
                                    LET r == DemoRecordVerification(demo_storage, voter_uuid, booth,
                                                                    "iris_verification", clock, later)
                                    IN /\ voteRecords' = CommitIrisVerified(voteRecords, idx, clock)
                                       /\ demo_storage' = r.storage
                                       /\ clock' = later
                                       /\ resp' = Reply("verify_iris", voter_uuid, 200, r.blockchain_hash)
                                       /\ UNCHANGED fraud
                             ELSE /\ Len(fraud) < MaxFraud
                                  /\ fraud' = Append(fraud, NewFraud(voter_uuid, booth, "identity_mismatch"))
                                  /\ resp' = Reply("verify_iris", voter_uuid, 403, NoHash)
                                  /\ UNCHANGED <<voteRecords, demo_storage, clock>>

\* POST /api/voter/cast-vote
CastVote(voter_uuid) ==
  /\ UNCHANGED threads
  /\ IF voter_uuid = Blank
     THEN /\ resp' = Reply("cast_vote", voter_uuid, 400, NoHash)
          /\ UNCHANGED <<voters, voteRecords, fraud, demo_storage, clock>>
     ELSE IF voter_uuid \notin Voters
     THEN /\ resp' = Reply("cast_vote", voter_uuid, 404, NoHash)
          /\ UNCHANGED <<voters, voteRecords, fraud, demo_storage, clock>>
     ELSE LET idx == FirstRecord(voteRecords, voter_uuid)
          IN IF IrisStepMissing(voteRecords, idx)
             THEN /\ resp' = Reply("cast_vote", voter_uuid, 400, NoHash)
                  /\ UNCHANGED <<voters, voteRecords, fraud, demo_storage, clock>>
             ELSE \E later \in Later :
                    LET r == DemoRecordVerification(demo_storage, voter_uuid,
                                                    voteRecords[idx].polling_booth_id,
                                                    "vote_cast", clock, later)
                    IN /\ TotalVotes(demo_storage, voteRecords[idx].polling_booth_id) < MaxVotes
                       /\ voters' = MarkVoted(voters, voter_uuid, clock)
                       /\ voteRecords' = CommitVoteCast(voteRecords, idx, clock, r.blockchain_hash)
                       /\ demo_storage' = r.storage
                       /\ clock' = later
                       /\ resp' = Reply("cast_vote", voter_uuid, 200, r.blockchain_hash)
                       /\ UNCHANGED fraud

\* time passes between requests
Tick ==
  /\ clock < MaxClock
  /\ clock' = clock + 1
  /\ UNCHANGED <<voters, voteRecords, fraud, demo_storage, resp, threads>>

\* the tables after db.create_all() and voter enrolment (a voter is enrolled
\* with or without biometric templates), an empty ledger, no request served
Init ==
  /\ voters \in {[v \in Voters |-> IF v = "v1" THEN NewVoter(e, t) ELSE NewVoter(Enrolled, Enrolled)] :
                  e \in {NoTemplate, Enrolled}, t \in {NoTemplate, Enrolled}}
  /\ voteRecords = <<>>
  /\ fraud = <<>>
  /\ demo_storage = EmptyStorage
  /\ clock = 0
  /\ resp = NoReply
  /\ threads = [t \in Threads |-> Idle]

\* a server that also has an endpoint which empties the FraudAttempt table
NextWithPurge ==
  \/ \E q \in IdRequests : VerifyVoterId(q[1], q[2], q[3])
  \/ \E q \in FaceRequests : VerifyFace(q[1], q[2])
  \/ \E q \in IrisRequests : VerifyIris(q[1], q[2])
  \/ \E v \in CastRequests : CastVote(v)
  \/ Tick
  \/ /\ fraud # <<>> /\ fraud' = <<>>
     /\ UNCHANGED <<voters, voteRecords, demo_storage, clock, resp, threads>>

Next ==
  \/ \E q \in IdRequests : VerifyVoterId(q[1], q[2], q[3])
  \/ \E q \in FaceRequests : VerifyFace(q[1], q[2])
  \/ \E q \in IrisRequests : VerifyIris(q[1], q[2])
  \/ \E v \in CastRequests : CastVote(v)
  \/ Tick

Spec == Init /\ [][Next]_vars

\* ------------------------------------------- the handlers, thread by thread
\* Flask serves each request in its own thread; no handler takes a lock. A
\* handler is cut where another thread can observe or change what it works
\* on: after its queries, at each db.session.commit(), at its ledger call,
\* and inside the ledger call between the get() calls and the rest (the
\* ledger object is shared by all threads and takes no lock either).
Running(t, pc) == threads[t].pc = pc
Finish(t, reply) == threads' = [threads EXCEPT ![t] = Idle] /\ resp' = reply
Goto(t, pc, v, b, idx, at, h) ==
  /\ threads' = [threads EXCEPT ![t] = [pc |-> pc, voter |-> v, booth |-> b, idx |-> idx,
                                        at |-> at, hash |-> h, view |-> NoView]]
  /\ resp' = resp

\* _demo_record_verification, lines 81-104: the two get() calls. They return
\* the dicts the storage holds, or fresh default dicts when the keys are absent
LedgerCalls == {"id_ledger", "face_ledger", "iris_ledger", "cast_ledger"}
LedgerGet(t) ==
  /\ threads[t].pc \in LedgerCalls
  /\ threads[t].view = NoView
  /\ threads' = [threads EXCEPT ![t].view =
       IF HasVoteRecord(demo_storage, threads[t].voter)
       THEN StoredView
       ELSE OwnView(DefaultVoteRecord(threads[t].voter, threads[t].booth, clock),
                    DefaultVoterStatus(threads[t].voter, threads[t].booth))]
  /\ UNCHANGED <<voters, voteRecords, fraud, demo_storage, clock, resp>>

\* the dicts thread t works on in its ledger call
ViewRec(t) ==
  IF threads[t].view.kind = "own" THEN threads[t].view.vote
  ELSE demo_storage.vote[threads[t].voter]
ViewStatus(t) ==
  IF threads[t].view.kind = "own" THEN threads[t].view.voter
  ELSE demo_storage.voter[threads[t].voter]

\* _demo_record_verification, lines 106-155, run by thread t for its step
LedgerWrite(t, step, now, later) ==
  DemoRecordVerificationOn(demo_storage, ViewRec(t), ViewStatus(t),
                           threads[t].voter, threads[t].booth, step, now, later)

\* thread u after thread t's ledger call returned r: when t stored dicts of
\* its own over the ones u got from the storage, u is left holding the
\* replaced dicts
AfterStore(u, t, r) ==
  IF /\ r.success /\ threads[t].view.kind = "own"
     /\ threads[u].view.kind = "store" /\ threads[u].voter = threads[t].voter
  THEN [threads[u] EXCEPT !.view = OwnView(demo_storage.vote[threads[u].voter],
                                           demo_storage.voter[threads[u].voter])]
  ELSE threads[u]

\* the ledger call of thread t returns r and the handler replies
FinishLedger(t, r, reply) ==
  /\ threads' = [u \in Threads |-> IF u = t THEN Idle ELSE AfterStore(u, t, r)]
  /\ resp' = reply

\* verify_voter_id, lines 153-216: validation, the voter query, the
\* already-voted check and the VoteRecord query
IdBegin(t, voter_id, booth_id, ocr) ==
  /\ Running(t, "idle")
  /\ UNCHANGED <<voters, voteRecords, demo_storage, clock>>
  /\ IF voter_id = Blank \/ OcrGate(voter_id, ocr) # "pass"
     THEN Finish(t, Reply("verify_id", voter_id, 400, NoHash)) /\ UNCHANGED fraud
     ELSE IF ~VoterAt(voter_id, booth_id)
     THEN Finish(t, Reply("verify_id", voter_id, 404, NoHash)) /\ UNCHANGED fraud
     ELSE IF AlreadyVoted(voters, voter_id)
     THEN /\ Len(fraud) < MaxFraud
          /\ fraud' = Append(fraud, NewFraud(voter_id, booth_id, "duplicate_vote"))
          /\ Finish(t, Reply("verify_id", voter_id, 403, NoHash))
     ELSE /\ Goto(t, "id_commit", voter_id, booth_id,
                  FirstRecordAt(voteRecords, voter_id, booth_id), NoTime, NoHash)
          /\ UNCHANGED fraud

\* verify_voter_id, lines 218-227: insert the row if the query found none,
\* set id_verified, commit
IdCommit(t) ==
  /\ Running(t, "id_commit")
  /\ voteRecords' = CommitIdVerified(voteRecords, threads[t].idx, threads[t].voter, threads[t].booth)
  /\ threads' = [threads EXCEPT ![t].pc = "id_ledger"]
  /\ UNCHANGED <<voters, fraud, demo_storage, clock, resp>>

\* verify_voter_id, lines 229-245: the ledger call and the reply
IdLedger(t) ==
  /\ Running(t, "id_ledger")
  /\ threads[t].view # NoView
  /\ \E later \in {clock} :
       LET r == LedgerWrite(t, "id_verification", clock, later)
       IN /\ demo_storage' = r.storage
          /\ clock' = later
          /\ FinishLedger(t, r, Reply("verify_id", threads[t].voter, 200, r.blockchain_hash))
  /\ UNCHANGED <<voters, voteRecords, fraud>>

\* verify_face, lines 254-336 and 362-395: the queries, the matcher, the
\* encoding minted from the capture, and the rejection with its fraud row
FaceBegin(t, voter_uuid, ev) ==
  /\ Running(t, "idle")
  /\ UNCHANGED <<voteRecords, demo_storage, clock>>
  /\ LET idx == IF voter_uuid \in Voters THEN FirstRecord(voteRecords, voter_uuid) ELSE 0
         fr == FaceResult(voters[voter_uuid].face_encoding, ev)
     IN IF voter_uuid = Blank
        THEN Finish(t, Reply("verify_face", voter_uuid, 400, NoHash)) /\ UNCHANGED <<voters, fraud>>
        ELSE IF voter_uuid \notin Voters
        THEN Finish(t, Reply("verify_face", voter_uuid, 404, NoHash)) /\ UNCHANGED <<voters, fraud>>
        ELSE IF IdStepMissing(voteRecords, idx)
        THEN Finish(t, Reply("verify_face", voter_uuid, 400, NoHash)) /\ UNCHANGED <<voters, fraud>>
        ELSE IF fr.error
        THEN Finish(t, Reply("verify_face", voter_uuid, 400, NoHash)) /\ UNCHANGED <<voters, fraud>>
        ELSE /\ voters' = [voters EXCEPT ![voter_uuid].face_encoding = fr.encoding]
             /\ IF ~fr.result.success
                THEN Finish(t, Reply("verify_face", voter_uuid, 400, NoHash)) /\ UNCHANGED fraud
                ELSE IF FaceAccepted(fr.result)
                THEN /\ Goto(t, "face_commit", voter_uuid, voteRecords[idx].polling_booth_id,
                             idx, NoTime, NoHash)
                     /\ UNCHANGED fraud
                ELSE /\ Len(fraud) < MaxFraud
                     /\ fraud' = Append(fraud, NewFraud(voter_uuid, voteRecords[idx].polling_booth_id,
                                                        "identity_mismatch"))
                     /\ Finish(t, Reply("verify_face", voter_uuid, 403, NoHash))

\* verify_face, lines 339-340
FaceCommit(t) ==
  /\ Running(t, "face_commit")
  /\ voteRecords' = CommitFaceVerified(voteRecords, threads[t].idx)
  /\ threads' = [threads EXCEPT ![t].pc = "face_ledger"]
  /\ UNCHANGED <<voters, fraud, demo_storage, clock, resp>>

\* verify_face, lines 342-361
FaceLedger(t) ==
  /\ Running(t, "face_ledger")
  /\ threads[t].view # NoView
  /\ \E later \in {clock} :
       LET r == LedgerWrite(t, "face_verification", clock, later)
       IN /\ demo_storage' = r.storage
          /\ clock' = later
          /\ FinishLedger(t, r, Reply("verify_face", threads[t].voter, 200, r.blockchain_hash))
  /\ UNCHANGED <<voters, voteRecords, fraud>>

\* verify_iris, lines 405-458 and 481-497
IrisBegin(t, voter_uuid, ev) ==
  /\ Running(t, "idle")
  /\ UNCHANGED <<voteRecords, demo_storage, clock>>
  /\ LET idx == IF voter_uuid \in Voters THEN FirstRecord(voteRecords, voter_uuid) ELSE 0
         ir == IrisResult(voters[voter_uuid].iris_template, ev)
     IN IF voter_uuid = Blank
        THEN Finish(t, Reply("verify_iris", voter_uuid, 400, NoHash)) /\ UNCHANGED <<voters, fraud>>
        ELSE IF voter_uuid \notin Voters
        THEN Finish(t, Reply("verify_iris", voter_uuid, 404, NoHash)) /\ UNCHANGED <<voters, fraud>>
        ELSE IF FaceStepMissing(voteRecords, idx)
        THEN Finish(t, Reply("verify_iris", voter_uuid, 400, NoHash)) /\ UNCHANGED <<voters, fraud>>
        ELSE IF ir.error
        THEN Finish(t, Reply("verify_iris", voter_uuid, 400, NoHash)) /\ UNCHANGED <<voters, fraud>>
        ELSE /\ voters' = [voters EXCEPT ![voter_uuid].iris_template = ir.template]
             /\ IF ~ir.result.success
                THEN Finish(t, Reply("verify_iris", voter_uuid, 400, NoHash)) /\ UNCHANGED fraud
                ELSE IF IrisAccepted(ir.result)
                THEN /\ Goto(t, "iris_commit", voter_uuid, voteRecords[idx].polling_booth_id,
                             idx, NoTime, NoHash)
                     /\ UNCHANGED fraud
                ELSE /\ Len(fraud) < MaxFraud
                     /\ fraud' = Append(fraud, NewFraud(voter_uuid, voteRecords[idx].polling_booth_id,
                                                        "identity_mismatch"))
                     /\ Finish(t, Reply("verify_iris", voter_uuid, 403, NoHash))

\* verify_iris, lines 461-463
IrisCommit(t) ==
  /\ Running(t, "iris_commit")
  /\ voteRecords' = CommitIrisVerified(voteRecords, threads[t].idx, clock)
  /\ threads' = [threads EXCEPT ![t].pc = "iris_ledger"]
  /\ UNCHANGED <<voters, fraud, demo_storage, clock, resp>>

\* verify_iris, lines 465-480
IrisLedger(t) ==
  /\ Running(t, "iris_ledger")
  /\ threads[t].view # NoView
  /\ \E later \in {clock} :
       LET r == LedgerWrite(t, "iris_verification", clock, later)
       IN /\ demo_storage' = r.storage
          /\ clock' = later
          /\ FinishLedger(t, r, Reply("verify_iris", threads[t].voter, 200, r.blockchain_hash))
  /\ UNCHANGED <<voters, voteRecords, fraud>>

\* cast_vote, lines 507-527: the queries; has_voted, voted_at and vote_cast_at
\* are set on the session's objects and not yet written
CastBegin(t, voter_uuid) ==
  /\ Running(t, "idle")
  /\ UNCHANGED <<voters, voteRecords, fraud, demo_storage, clock>>
  /\ LET idx == IF voter_uuid \in Voters THEN FirstRecord(voteRecords, voter_uuid) ELSE 0
     IN IF voter_uuid = Blank
        THEN Finish(t, Reply("cast_vote", voter_uuid, 400, NoHash))
        ELSE IF voter_uuid \notin Voters
        THEN Finish(t, Reply("cast_vote", voter_uuid, 404, NoHash))
        ELSE IF IrisStepMissing(voteRecords, idx)
        THEN Finish(t, Reply("cast_vote", voter_uuid, 400, NoHash))
        ELSE Goto(t, "cast_ledger", voter_uuid, voteRecords[idx].polling_booth_id, idx, clock, NoHash)

\* cast_vote, lines 529-534: the ledger call, made before the commit
CastLedger(t) ==
  /\ Running(t, "cast_ledger")
  /\ threads[t].view # NoView
  /\ \E later \in {clock} :
       LET r == LedgerWrite(t, "vote_cast", threads[t].at, later)
       IN /\ r.success => TotalVotes(demo_storage, threads[t].booth) < MaxVotes
          /\ demo_storage' = r.storage
          /\ clock' = later
          /\ threads' = [u \in Threads |->
                IF u = t
                THEN [threads[t] EXCEPT !.pc = "cast_commit", !.hash = r.blockchain_hash,
                                        !.view = NoView]
                ELSE AfterStore(u, t, r)]
  /\ UNCHANGED <<voters, voteRecords, fraud, resp>>

\* cast_vote, lines 536-549: the commit and the reply
CastCommit(t) ==
  /\ Running(t, "cast_commit")
  /\ voters' = MarkVoted(voters, threads[t].voter, threads[t].at)
  /\ voteRecords' = CommitVoteCast(voteRecords, threads[t].idx, threads[t].at, threads[t].hash)
  /\ Finish(t, Reply("cast_vote", threads[t].voter, 200, threads[t].hash))
  /\ UNCHANGED <<fraud, demo_storage, clock>>

\* the requests of the threaded runs: voter v1 at its booth, without an ID
\* image, with one passing and one failing capture per biometric step; the
\* clock does not move during these runs
ConcFaceInputs ==
  {e \in FaceInputs : e.detect /\ ~e.refs /\ e.sim \in {20, 188} /\ e.live.headMovement}
ConcIrisInputs ==
  {e \in IrisInputs : e.detect /\ e.left_eye.ok /\ e.left_eye = e.right_eye}

NextConc ==
  \/ \E t \in Threads, v \in Requested : IdBegin(t, v, BoothOf[v], NoImage)
  \/ \E t \in Threads : IdCommit(t)
  \/ \E t \in Threads : IdLedger(t)
  \/ \E t \in Threads, v \in Requested, e \in ConcFaceInputs : FaceBegin(t, v, e)
  \/ \E t \in Threads : FaceCommit(t)
  \/ \E t \in Threads : FaceLedger(t)
  \/ \E t \in Threads, v \in Requested, e \in ConcIrisInputs : IrisBegin(t, v, e)
  \/ \E t \in Threads : IrisCommit(t)
  \/ \E t \in Threads : IrisLedger(t)
  \/ \E t \in Threads, v \in Requested : CastBegin(t, v)
  \/ \E t \in Threads : CastLedger(t)
  \/ \E t \in Threads : CastCommit(t)
  \/ \E t \in Threads : LedgerGet(t)

\* the threaded runs start with v1 enrolled with both templates, as
\* add_real_voters enrols every voter
InitConc ==
  /\ Init
  /\ voters["v1"].face_encoding = Enrolled /\ voters["v1"].iris_template = Enrolled

SpecConc == InitConc /\ [][NextConc]_vars

\* ------------------------------------ two voters served at the same time
\* one server thread per voter: t1 serves the requests of v1 and t2 those of
\* v2, each voter walking through the steps at its booth with passing and
\* failing captures; the clock does not move during these runs
ServedBy == ("t1" :> "v1") @@ ("t2" :> "v2")

\* one step of thread t in a request of voter v
TwoStep(t, v) ==
  \/ IdBegin(t, v, BoothOf[v], NoImage)
  \/ \E e \in ConcFaceInputs : FaceBegin(t, v, e)
  \/ \E e \in ConcIrisInputs : IrisBegin(t, v, e)
  \/ CastBegin(t, v)
  \/ threads[t].voter = v /\ (IdCommit(t) \/ FaceCommit(t) \/ IrisCommit(t) \/ CastCommit(t))
  \/ threads[t].voter = v /\ LedgerGet(t)
  \/ threads[t].voter = v /\ (IdLedger(t) \/ FaceLedger(t) \/ IrisLedger(t) \/ CastLedger(t))

NextTwo == \E t \in Threads : TwoStep(t, ServedBy[t])

SpecTwo == InitConc /\ [][NextTwo]_vars

\* ------------------------------- enrolment from the capture, in two threads
\* a voter enrolled without biometric templates is served by two threads. The
\* handler reads the Voter row with its queries (lines 267, 413) and stores
\* the template minted from its capture with a commit of its own (lines
\* 313-314, 435-436): the matcher and the encoder run in between, and other
\* threads with them. Two requests carry two captures, so the template a
\* thread mints is its own. The runs cover the three verification steps.
EncodingOf == ("t1" :> "captured_t1") @@ ("t2" :> "captured_t2")

\* the handler is about to mint the voter's template from the capture
MintsEncoding(stored, ev) ==
  LET fr == FaceResult(stored, ev) IN ~fr.error /\ fr.encoding # stored
MintsTemplate(stored, ev) ==
  LET ir == IrisResult(stored, ev) IN ~ir.error /\ ir.template # stored

\* the locals of a handler between its queries and its template commit
Enrolling(pc, v, b, idx, ev) ==
  [pc |-> pc, voter |-> v, booth |-> b, idx |-> idx, at |-> NoTime, hash |-> NoHash,
   view |-> NoView, capture |-> ev]

\* verify_face, lines 254-312: as FaceBegin, but a handler that found no
\* stored encoding and no matching reference image stops before line 313
FaceQuery(t, voter_uuid, ev) ==
  LET idx == IF voter_uuid \in Voters THEN FirstRecord(voteRecords, voter_uuid) ELSE 0
  IN IF /\ voter_uuid \in Voters /\ ~IdStepMissing(voteRecords, idx)
        /\ MintsEncoding(voters[voter_uuid].face_encoding, ev)
     THEN /\ Running(t, "idle")
          /\ threads' = [threads EXCEPT ![t] =
               Enrolling("face_enrol", voter_uuid, voteRecords[idx].polling_booth_id, idx, ev)]
          /\ UNCHANGED <<voters, voteRecords, fraud, demo_storage, clock, resp>>
     ELSE FaceBegin(t, voter_uuid, ev)

\* verify_face, lines 313-336 and 362-395: the encoding is stored and
\* committed, the capture is verified against it, and the decision is taken
FaceEnrol(t) ==
  /\ Running(t, "face_enrol")
  /\ voters' = [voters EXCEPT ![threads[t].voter].face_encoding = EncodingOf[t]]
  /\ UNCHANGED <<voteRecords, demo_storage, clock>>
  /\ LET fr == FaceResult(NoTemplate, threads[t].capture)
     IN IF FaceAccepted(fr.result)
        THEN /\ Goto(t, "face_commit", threads[t].voter, threads[t].booth, threads[t].idx,
                     NoTime, NoHash)
             /\ UNCHANGED fraud
        ELSE /\ Len(fraud) < MaxFraud
             /\ fraud' = Append(fraud, NewFraud(threads[t].voter, threads[t].booth,
                                                "identity_mismatch"))
             /\ Finish(t, Reply("verify_face", threads[t].voter, 403, NoHash))

\* verify_iris, lines 405-434: as IrisBegin, but a handler that found no
\* stored template stops before line 435
IrisQuery(t, voter_uuid, ev) ==
  LET idx == IF voter_uuid \in Voters THEN FirstRecord(voteRecords, voter_uuid) ELSE 0
  IN IF /\ voter_uuid \in Voters /\ ~FaceStepMissing(voteRecords, idx)
        /\ MintsTemplate(voters[voter_uuid].iris_template, ev)
     THEN /\ Running(t, "idle")
          /\ threads' = [threads EXCEPT ![t] =
               Enrolling("iris_enrol", voter_uuid, voteRecords[idx].polling_booth_id, idx, ev)]
          /\ UNCHANGED <<voters, voteRecords, fraud, demo_storage, clock, resp>>
     ELSE IrisBegin(t, voter_uuid, ev)

\* verify_iris, lines 435-460: the template is stored and committed, and the
\* assumed result is accepted
IrisEnrol(t) ==
  /\ Running(t, "iris_enrol")
  /\ voters' = [voters EXCEPT ![threads[t].voter].iris_template = EncodingOf[t]]
  /\ UNCHANGED <<voteRecords, demo_storage, clock>>
  /\ LET ir == IrisResult(NoTemplate, threads[t].capture)
     IN IF IrisAccepted(ir.result)
        THEN /\ Goto(t, "iris_commit", threads[t].voter, threads[t].booth, threads[t].idx,
                     NoTime, NoHash)
             /\ UNCHANGED fraud
        ELSE /\ Len(fraud) < MaxFraud
             /\ fraud' = Append(fraud, NewFraud(threads[t].voter, threads[t].booth,
                                                "identity_mismatch"))
             /\ Finish(t, Reply("verify_iris", threads[t].voter, 403, NoHash))

NextEnrol ==
  \/ \E t \in Threads, v \in Requested : IdBegin(t, v, BoothOf[v], NoImage)
  \/ \E t \in Threads : IdCommit(t)
  \/ \E t \in Threads : IdLedger(t)
  \/ \E t \in Threads, v \in Requested, e \in ConcFaceInputs : FaceQuery(t, v, e)
  \/ \E t \in Threads : FaceEnrol(t)
  \/ \E t \in Threads : FaceCommit(t)
  \/ \E t \in Threads : FaceLedger(t)
  \/ \E t \in Threads, v \in Requested, e \in ConcIrisInputs : IrisQuery(t, v, e)
  \/ \E t \in Threads : IrisEnrol(t)
  \/ \E t \in Threads : IrisCommit(t)
  \/ \E t \in Threads : IrisLedger(t)
  \/ \E t \in Threads : LedgerGet(t)

\* v1 was enrolled without biometric templates
InitEnrol ==
  /\ Init
  /\ voters["v1"].face_encoding = NoTemplate /\ voters["v1"].iris_template = NoTemplate

SpecEnrol == InitEnrol /\ [][NextEnrol]_vars

\* ----------------------------------------- the face matcher called alone
\* verify_face_with_liveness(stored_encoding, live_image_data, liveness_data)
\* called with any stored encoding (None or not), any capture (a face found
\* or not, its similarity to the stored encoding) and any liveness_data a
\* client can send: the score is whatever number the client reports
MatcherSims == {20, 40, 150, 186, 188, 300}
MatcherScores == {0 - 1000, 0, 300, 1000, 2000}
MatcherLiveness ==
  {[headMovement |-> h, blinkCount |-> b, score |-> x] :
     h \in BOOLEAN, b \in {0, 1, 2}, x \in MatcherScores}
MatcherCalls ==
  {[stored_none |-> n, detect |-> d, sim |-> x, live |-> l] :
     n \in BOOLEAN, d \in BOOLEAN, x \in MatcherSims, l \in MatcherLiveness}

\* one call: resp holds the arguments and what the call returned
CallVerifyFaceWithLiveness(c) ==
  /\ resp' = [op      |-> "verify_face_with_liveness",
              call    |-> c,
              result  |-> VerifyFaceWithLiveness(c.stored_none, c.detect, c.sim, c.live),
              details |-> VerificationDetails(c.stored_none, c.detect, c.sim, c.live)]
  /\ UNCHANGED <<voters, voteRecords, fraud, demo_storage, clock, threads>>

NextMatcher == \E c \in MatcherCalls : CallVerifyFaceWithLiveness(c)

SpecMatcher == InitConc /\ [][NextMatcher]_vars

\* ------------------------------------------------ the ledger called alone
\* the public methods of the BlockchainIntegration object called directly, as
\* the module's convenience functions do: record_vote_verification with any
\* voter at the voter's booth and any step (a step name the ledger does not
\* know included), and export_audit_trail by a caller that keeps what it
\* returned
LedgerSteps == Steps \cup {"recount"}

\* record_vote_verification(voter_uuid, voter_id, booth_id, verification_step)
\* in demo mode; resp holds the arguments and the returned dict
RecordVoteVerification(v, b, step) ==
  \E later \in Later :
    LET r == DemoRecordVerification(demo_storage, v, b, step, clock, later)
    IN /\ (r.success /\ step = "vote_cast") => TotalVotes(demo_storage, b) < MaxVotes
       /\ demo_storage' = r.storage
       /\ clock' = later
       /\ resp' = [op |-> "record_vote_verification", voter |-> v, booth |-> b, step |-> step,
                   success |-> r.success, blockchain_hash |-> r.blockchain_hash]
       /\ UNCHANGED <<voters, voteRecords, fraud, threads>>

\* the dict export_audit_trail returns: get_all_vote_records appends the
\* stored dicts themselves to its list and the two comprehensions map the
\* keys to the stored dicts themselves (nothing is copied), so the export is
\* modelled by the keys of the dicts it refers to, together with the values
\* made for it (the timestamp and the integrity flag)
AuditTrail(ds, now) ==
  [export_timestamp   |-> now,
   vote_records       |-> DOMAIN ds.vote,
   booth_statistics   |-> DOMAIN ds.booth_stats,
   voter_statuses     |-> DOMAIN ds.voter,
   integrity_verified |-> TRUE]

\* a caller that holds an export it was returned
Holding(x) ==
  [pc |-> "exported", voter |-> Unknown, booth |-> 0, idx |-> 0, at |-> NoTime,
   hash |-> NoHash, view |-> NoView, export |-> x]
HoldsExport(t) == threads[t].pc = "exported"

\* export_audit_trail() called by t
ExportAuditTrail(t) ==
  /\ threads' = [threads EXCEPT ![t] = Holding(AuditTrail(demo_storage, clock))]
  /\ UNCHANGED <<voters, voteRecords, fraud, demo_storage, clock, resp>>

\* what a reader of export x finds in it while the ledger holds ds: the
\* dicts the export refers to are the ones the ledger keeps under their keys
\* (a stored dict is updated in place and stored back under its key)
ExportContents(x, ds) ==
  [export_timestamp   |-> x.export_timestamp,
   vote_records       |-> {ds.vote[v] : v \in x.vote_records},
   booth_statistics   |-> [b \in x.booth_statistics |-> ds.booth_stats[b]],
   voter_statuses     |-> [v \in x.voter_statuses |-> ds.voter[v]],
   integrity_verified |-> x.integrity_verified]

Auditors == {"t1"}

NextLedger ==
  \/ \E v \in Voters, step \in LedgerSteps : RecordVoteVerification(v, BoothOf[v], step)
  \/ \E t \in Auditors : ExportAuditTrail(t)
  \/ Tick

SpecLedger == InitConc /\ [][NextLedger]_vars

\* ================================================================= claims
\* the session row the handlers work on, and what the ledger shows
Session(v) == voteRecords[FirstRecord(voteRecords, v)]
HasSession(v) == FirstRecord(voteRecords, v) # 0
LedgerVoteCast(v) == HasVoteRecord(demo_storage, v) /\ demo_storage.vote[v].vote_cast
LedgerHasVoted(v) == HasVoterStatus(demo_storage, v) /\ demo_storage.voter[v].has_voted
NothingWritten ==
  voters' = voters /\ voteRecords' = voteRecords /\ demo_storage' = demo_storage
DuplicateVoteLogged(v) ==
  fraud' = Append(fraud, NewFraud(v, BoothOf[v], "duplicate_vote"))

\* a well-formed step request for voter v is served (right booth, no ID image)
FaceRequestFor(v) == \E q \in FaceRequests : q[1] = v /\ VerifyFace(q[1], q[2])
IrisRequestFor(v) == \E q \in IrisRequests : q[1] = v /\ VerifyIris(q[1], q[2])
IdRequestFor(v) == VerifyVoterId(v, BoothOf[v], NoImage)
StepRequestFor(v) == IdRequestFor(v) \/ FaceRequestFor(v) \/ IrisRequestFor(v) \/ CastVote(v)

\* C1: a cast_vote served for a voter who has already voted is rejected as a
\* conflict (403) and writes nothing: voter row, session row and the whole
\* ledger (vote record, voter status, booth vote count) stay as they were.
C1_SecondCastRejected ==
  [][\A v \in Voters :
       (voters[v].has_voted /\ CastVote(v)) => (resp'.code = 403 /\ NothingWritten)]_vars

\* C2: of two cast_vote requests for the same voter that are in flight together
\* and past their ledger call, at most one holds a successful ledger recording
\* (the other one has to be the rejected one).
C2_OneConcurrentCastWins ==
  \A t \in Threads : \A u \in Threads \ {t} :
    (threads[t].pc = "cast_commit" /\ threads[u].pc = "cast_commit"
       /\ threads[t].voter = threads[u].voter)
    => ~(threads[t].hash # NoHash /\ threads[u].hash # NoHash)

\* C3: once voter.has_voted is true, every step request for that voter gets
\* the 403 conflict, appends one duplicate_vote FraudAttempt and writes
\* nothing else.
C3_VotedRejectsEveryStep ==
  [][\A v \in Voters :
       (voters[v].has_voted /\ StepRequestFor(v))
       => (resp'.code = 403 /\ DuplicateVoteLogged(v) /\ NothingWritten)]_vars

\* C4: verify_voter_id (right booth, no ID image) for a voter whose vote is
\* cast gets the 403 conflict, appends exactly one duplicate_vote FraudAttempt,
\* and leaves voter row, session row and ledger unchanged.
C4_VerifyIdAfterVoteIsFraud ==
  [][\A v \in Voters :
       (voters[v].has_voted /\ IdRequestFor(v))
       => (resp'.code = 403 /\ DuplicateVoteLogged(v) /\ NothingWritten)]_vars

\* C4 witness: the conflict reply to verify_voter_id after a recorded vote
C4_Witness ==
  /\ resp = Reply("verify_id", "v1", 403, NoHash)
  /\ voters["v1"].has_voted /\ LedgerVoteCast("v1")
  /\ Len(fraud) = 1 /\ fraud[1] = NewFraud("v1", 1, "duplicate_vote")

\* C5: the ledger's vote record of a voter never shows face_verified without
\* id_verified, nor iris_verified without face_verified.
C5_LedgerStepsOrdered ==
  \A v \in DOMAIN demo_storage.vote :
    /\ demo_storage.vote[v].face_verified => demo_storage.vote[v].id_verified
    /\ demo_storage.vote[v].iris_verified => demo_storage.vote[v].face_verified

\* C6: every session row has iris_verified => face_verified => id_verified, a
\* row with vote_cast_at set has all three flags, and a voter with has_voted
\* has a session whose three flags are set.
C6_SessionStepsOrdered ==
  /\ \A i \in 1..Len(voteRecords) :
       /\ voteRecords[i].iris_verified => voteRecords[i].face_verified
       /\ voteRecords[i].face_verified => voteRecords[i].id_verified
       /\ voteRecords[i].vote_cast_at # NoTime => voteRecords[i].iris_verified
  /\ \A v \in Voters :
       voters[v].has_voted => (HasSession(v) /\ Session(v).iris_verified
                               /\ Session(v).vote_cast_at # NoTime)

\* C6 witness: a voter who voted, through a session with all three flags
C6_Witness ==
  /\ voters["v1"].has_voted
  /\ Session("v1").id_verified /\ Session("v1").face_verified /\ Session("v1").iris_verified
  /\ Session("v1").vote_cast_at # NoTime

\* C7: Voter.has_voted is true exactly when the ledger holds a recorded
\* vote_cast for the voter; stated for the moments when no request for the
\* voter is being served.
C7_VotedIffLedgerVoteCast ==
  \A v \in Voters :
    (\A t \in Threads : threads[t].voter # v)
    => (voters[v].has_voted <=> (LedgerVoteCast(v) /\ LedgerHasVoted(v)))

\* C8: a step served before its prerequisite (or with no session) is rejected,
\* writes nothing to voter row, session or ledger, and appends a fraud event.
C8_OutOfOrderRejectedAndLogged ==
  [][\A v \in Voters :
       LET idx == FirstRecord(voteRecords, v)
       IN (\/ IdStepMissing(voteRecords, idx) /\ FaceRequestFor(v)
           \/ FaceStepMissing(voteRecords, idx) /\ IrisRequestFor(v)
           \/ IrisStepMissing(voteRecords, idx) /\ CastVote(v))
          => (resp'.code \in {400, 403} /\ NothingWritten /\ Len(fraud') = Len(fraud) + 1)]_vars

\* C9: a request for a step the session has already completed is rejected and
\* writes no ledger record.
C9_CompletedStepNotRepeated ==
  [][\A v \in Voters :
       (HasSession(v) /\ (\/ Session(v).id_verified /\ IdRequestFor(v)
                          \/ Session(v).face_verified /\ FaceRequestFor(v)
                          \/ Session(v).iris_verified /\ IrisRequestFor(v)))
       => (resp'.code # 200 /\ demo_storage' = demo_storage)]_vars

\* the session flag (has_voted for cast_vote) of the step a reply belongs to
StepFlagSet(op, v) ==
  CASE op = "verify_id"   -> HasSession(v) /\ Session(v).id_verified
    [] op = "verify_face" -> HasSession(v) /\ Session(v).face_verified
    [] op = "verify_iris" -> HasSession(v) /\ Session(v).iris_verified
    [] op = "cast_vote"   -> voters[v].has_voted
    [] OTHER              -> FALSE

\* C10: a success reply (200) of a step endpoint carries the non-null hash of
\* a ledger recording that succeeded, and the step's session flag is set.
C10_SuccessMeansRecorded ==
  resp.code = 200 => (resp.blockchain_hash # NoHash /\ StepFlagSet(resp.op, resp.voter))

\* the matcher's result for an in-order request with evidence ev, and whether
\* the request gets as far as the decision on it
FaceDecided(v, ev) ==
  /\ v \in Voters
  /\ ~IdStepMissing(voteRecords, FirstRecord(voteRecords, v))
  /\ ~FaceResult(voters[v].face_encoding, ev).error
  /\ FaceResult(voters[v].face_encoding, ev).result.success
IrisDecided(v, ev) ==
  /\ v \in Voters
  /\ ~FaceStepMissing(voteRecords, FirstRecord(voteRecords, v))
  /\ ~IrisResult(voters[v].iris_template, ev).error
  /\ IrisResult(voters[v].iris_template, ev).result.success
MismatchLogged(v) ==
  /\ Len(fraud') = Len(fraud) + 1
  /\ SubSeq(fraud', 1, Len(fraud)) = fraud
  /\ fraud'[Len(fraud')].fraud_type = "identity_mismatch"
  /\ fraud'[Len(fraud')].voter_id = v

\* the captures the matcher answers with a result that misses the
\* thresholds, by the template the voter row holds
Templates == {NoTemplate, Enrolled, Captured}
FaceMisses ==
  [t \in Templates |->
     {e \in FaceInputs : LET fr == FaceResult(t, e)
                         IN ~fr.error /\ fr.result.success /\ ~fr.result.verified}]
IrisMisses ==
  [t \in Templates |->
     {e \in IrisInputs : LET ir == IrisResult(t, e)
                         IN /\ ~ir.error /\ ir.result.success
                            /\ ~(ir.result.verified /\ ir.result.confidence > IrisThreshold)}]

\* C11: an in-order verify_face / verify_iris whose matcher returned a result
\* that misses the thresholds leaves every session row and the ledger as they
\* were and appends exactly one identity_mismatch FraudAttempt.
\* Stated per reply: a step that answers voter v's verify_face (verify_iris)
\* in an in-order session without being such a logged 403 rejection (C) is not
\* the handling of any capture e whose matcher result misses the thresholds.
C11_RejectionLogsMismatch ==
  [][/\ resp'.op = "verify_face"
        => \A v \in Requested :
             LET idx == FirstRecord(voteRecords, v)
                 C == /\ resp'.code = 403
                      /\ voteRecords' = voteRecords /\ demo_storage' = demo_storage
                      /\ MismatchLogged(v)
             IN (resp'.voter = v /\ ~IdStepMissing(voteRecords, idx) /\ ~C)
                => \A e \in FaceMisses[voters[v].face_encoding] : ~VerifyFace(v, e)
     /\ resp'.op = "verify_iris"
        => \A v \in Requested :
             LET idx == FirstRecord(voteRecords, v)
                 C == /\ resp'.code = 403
                      /\ voteRecords' = voteRecords /\ demo_storage' = demo_storage
                      /\ MismatchLogged(v)
             IN (resp'.voter = v /\ ~FaceStepMissing(voteRecords, idx) /\ ~C)
                => \A e \in IrisMisses[voters[v].iris_template] : ~VerifyIris(v, e)]_vars

\* C11 witness: a rejected iris capture: the session stays at face_verified,
\* the ledger holds no iris flag, one identity_mismatch row is logged
C11_Witness ==
  /\ resp = Reply("verify_iris", "v1", 403, NoHash)
  /\ Len(fraud) = 1 /\ fraud[1] = NewFraud("v1", 1, "identity_mismatch")
  /\ Session("v1").face_verified /\ ~Session("v1").iris_verified
  /\ ~demo_storage.vote["v1"].iris_verified

\* C12: a request that ends in a rejection or an error (any reply other than
\* 200) leaves the voter rows (templates and has_voted included), the session
\* rows and the ledger exactly as they were before it.
C12_FailureWritesNothing ==
  [][resp'.code # 200 => NothingWritten]_vars

\* C13: the face thresholds are inclusive. An in-order verify_face whose
\* reported face confidence is exactly the face threshold and whose liveness
\* score is exactly the liveness threshold is accepted (200, face_verified
\* set); one with either value below its threshold is rejected with 403 and an
\* identity_mismatch FraudAttempt.
C13_FaceBoundaryInclusive ==
  [][\A q \in FaceRequests :
       LET r == FaceResult(voters[q[1]].face_encoding, q[2]).result
       IN (FaceDecided(q[1], q[2]) /\ VerifyFace(q[1], q[2]))
          => /\ (r.face_confidence = FaceThreshold /\ r.liveness_score = LivenessThreshold)
                => (/\ resp'.code = 200
                    /\ voteRecords'[FirstRecord(voteRecords, q[1])].face_verified)
             /\ (r.face_confidence < FaceThreshold \/ r.liveness_score < LivenessThreshold)
                => (resp'.code = 403 /\ MismatchLogged(q[1]))]_vars

\* C14: every vote record the ledger holds (each one written by successful
\* recordings only) passes verify_vote_integrity: the hash recomputed from the
\* stored fields equals the stored blockchain_hash.
C14_IntegrityAfterRecording ==
  \A v \in DOMAIN demo_storage.vote : VerifyVoteIntegrity(demo_storage, v)

\* the records that differ from a stored vote record in exactly one field
Tampered(rec) ==
  {[rec EXCEPT !.id_verified = ~@], [rec EXCEPT !.face_verified = ~@],
   [rec EXCEPT !.iris_verified = ~@], [rec EXCEPT !.vote_cast = ~@]}
  \cup {[rec EXCEPT !.voter_uuid = x] : x \in (Voters \cup {Unknown}) \ {rec.voter_uuid}}
  \cup {[rec EXCEPT !.voter_id = x] : x \in (Voters \cup {Unknown}) \ {rec.voter_id}}
  \cup {[rec EXCEPT !.polling_booth_id = b] : b \in Booths \ {rec.polling_booth_id}}
  \cup {[rec EXCEPT !.timestamp = t] : t \in (0..(MaxClock + 1)) \ {rec.timestamp}}
  \cup {[rec EXCEPT !.blockchain_hash = h] :
          h \in {NoHash, GenerateHash([rec EXCEPT !.vote_cast = ~@])} \ {rec.blockchain_hash}}
  \cup {[rec EXCEPT !.previous_hash = h] :
          h \in {NoHash, GenerateHash(rec)} \ {rec.previous_hash}}

\* C15: whatever single field of a stored vote record is changed,
\* verify_vote_integrity then returns false for that voter.
C15_TamperDetected ==
  \A v \in DOMAIN demo_storage.vote :
    \A m \in Tampered(demo_storage.vote[v]) :
      ~VerifyVoteIntegrity([demo_storage EXCEPT !.vote[v] = m], v)

\* C16: every write of a voter's ledger record is chained to the entry before
\* it: the previous_hash stored with the new entry is the blockchain_hash of
\* the voter's preceding entry, and the root value (None) on the first entry.
C16_LedgerHashChained ==
  [][\A v \in DOMAIN demo_storage'.vote :
       IF v \in DOMAIN demo_storage.vote
       THEN demo_storage'.vote[v] # demo_storage.vote[v]
            => demo_storage'.vote[v].previous_hash = demo_storage.vote[v].blockchain_hash
       ELSE demo_storage'.vote[v].previous_hash = NoHash]_vars

\* C17: the cast_vote that completes a fully verified session of a voter who
\* has not voted succeeds with a recorded hash, sets voter.has_voted, and
\* leaves four ledger entries of the voter (id, face, iris, vote cast) to
\* retrieve.
C17_HappyPathFourEntries ==
  [][\A v \in Voters :
       (/\ HasSession(v) /\ Session(v).iris_verified /\ ~voters[v].has_voted
        /\ LedgerHasVoted(v) = FALSE /\ HasVoteRecord(demo_storage, v)
        /\ demo_storage.vote[v].iris_verified
        /\ CastVote(v))
       => (/\ resp'.code = 200 /\ resp'.blockchain_hash # NoHash
           /\ voters'[v].has_voted
           /\ Cardinality(GetVoteHistory(demo_storage', v)) = 4)]_vars

\* C18: no step turns a flag that is true back to false: Voter.has_voted, the
\* three flags of every session row, the flags of every ledger vote record
\* and the has_voted of every ledger voter status.
C18_FlagsMonotonic ==
  [][/\ \A v \in Voters : voters[v].has_voted => voters'[v].has_voted
     /\ \A i \in 1..Len(voteRecords) :
          /\ i <= Len(voteRecords')
          /\ voteRecords[i].id_verified => voteRecords'[i].id_verified
          /\ voteRecords[i].face_verified => voteRecords'[i].face_verified
          /\ voteRecords[i].iris_verified => voteRecords'[i].iris_verified
     /\ \A v \in DOMAIN demo_storage.vote :
          /\ v \in DOMAIN demo_storage'.vote
          /\ demo_storage.vote[v].id_verified => demo_storage'.vote[v].id_verified
          /\ demo_storage.vote[v].face_verified => demo_storage'.vote[v].face_verified
          /\ demo_storage.vote[v].iris_verified => demo_storage'.vote[v].iris_verified
          /\ demo_storage.vote[v].vote_cast => demo_storage'.vote[v].vote_cast
     /\ \A v \in DOMAIN demo_storage.voter :
          /\ v \in DOMAIN demo_storage'.voter
          /\ demo_storage.voter[v].has_voted => demo_storage'.voter[v].has_voted]_vars

\* C19: no session row is ever deleted, and once a voter has voted no step
\* changes a field of the voter's session rows, the voter's voted_at, or the
\* voter's ledger vote record.
C19_SessionFrozenAfterVote ==
  [][/\ Len(voteRecords') >= Len(voteRecords)
     /\ \A v \in Voters :
          voters[v].has_voted
          => /\ voters'[v].voted_at = voters[v].voted_at
             /\ \A i \in 1..Len(voteRecords) :
                  voteRecords[i].voter_uuid = v => voteRecords'[i] = voteRecords[i]
             /\ HasVoteRecord(demo_storage, v)
                => demo_storage'.vote[v] = demo_storage.vote[v]]_vars

\* C20: the VoteRecord table never holds two session rows of one voter.
C20_OneSessionPerVoter ==
  \A i \in 1..Len(voteRecords) : \A j \in 1..Len(voteRecords) :
    voteRecords[i].voter_uuid = voteRecords[j].voter_uuid => i = j

\* everything the system stores about voter v: the Voter row, the voter's
\* session rows, and the voter's two ledger entries (<<>> while absent)
RowsOf(recs, v) == SelectSeq(recs, LAMBDA r : r.voter_uuid = v)
LedgerOf(ds, v) ==
  [vote   |-> IF HasVoteRecord(ds, v) THEN <<ds.vote[v]>> ELSE <<>>,
   status |-> IF HasVoterStatus(ds, v) THEN <<ds.voter[v]>> ELSE <<>>]
VoterState(v) ==
  [row |-> voters[v], sessions |-> RowsOf(voteRecords, v), ledger |-> LedgerOf(demo_storage, v)]

\* the ledger holding the entries of voter v only
OnlyVoter(ds, v) ==
  [vote        |-> [x \in DOMAIN ds.vote \cap {v} |-> ds.vote[x]],
   voter       |-> [x \in DOMAIN ds.voter \cap {v} |-> ds.voter[x]],
   booth_stats |-> ds.booth_stats]

\* the step a thread's ledger call records
LedgerStepAt(pc) ==
  CASE pc = "id_ledger"   -> "id_verification"
    [] pc = "face_ledger" -> "face_verification"
    [] pc = "iris_ledger" -> "iris_verification"
    [] OTHER              -> "vote_cast"

\* what the ledger call thread t is about to finish leaves for its voter when
\* the ledger holds no other voter's entries
LedgerAlone(t) ==
  LedgerOf(DemoRecordVerificationOn(OnlyVoter(demo_storage, threads[t].voter),
                                    ViewRec(t), ViewStatus(t),
                                    threads[t].voter, threads[t].booth,
                                    LedgerStepAt(threads[t].pc),
                                    IF threads[t].pc = "cast_ledger" THEN threads[t].at ELSE clock,
                                    clock).storage,
           threads[t].voter)

\* C21: requests for different voters are independent. A step of a request
\* for voter A, accepted or rejected, leaves the Voter row, the session rows
\* and the two ledger entries of every other voter as they were, and what a
\* ledger call leaves for A is what it would leave if the ledger held no
\* other voter's entries (so the other voter's requests, however interleaved,
\* do not show in A's state).
C21_VotersIndependent ==
  [][\A t \in Threads :
       TwoStep(t, ServedBy[t])
       => /\ \A b \in Voters \ {ServedBy[t]} : VoterState(b)' = VoterState(b)
          /\ (threads[t].pc \in LedgerCalls /\ threads[t].view # NoView)
             => LedgerOf(demo_storage', ServedBy[t]) = LedgerAlone(t)]_vars

\* C21 witness: v1 has voted through its own session and ledger entries while
\* v2, rejected once at the iris step, is in the middle of its iris ledger
\* call with only its id and face steps recorded
C21_Witness ==
  /\ voters["v1"].has_voted /\ LedgerVoteCast("v1") /\ Session("v1").iris_verified
  /\ threads["t2"].pc = "iris_ledger" /\ threads["t2"].view # NoView
  /\ ~voters["v2"].has_voted /\ Session("v2").iris_verified
  /\ demo_storage.vote["v2"].face_verified /\ ~demo_storage.vote["v2"].iris_verified
  /\ Len(fraud) = 1 /\ fraud[1] = NewFraud("v2", 1, "identity_mismatch")

\* C22: verify_voter_id naming an existing voter and a booth the voter is not
\* assigned to is rejected, creates or changes no session row and no ledger
\* entry, and appends a FraudAttempt for the booth mismatch.
C22_BoothMismatchLogged ==
  [][\A q \in IdRequests :
       (/\ resp'.op = "verify_id" /\ resp'.voter = q[1]
        /\ q[1] \in Voters /\ BoothOf[q[1]] # q[2] /\ OcrGate(q[1], q[3]) = "pass"
        /\ VerifyVoterId(q[1], q[2], q[3]))
       => (/\ resp'.code \in {403, 404}
           /\ voteRecords' = voteRecords /\ demo_storage' = demo_storage
           /\ Len(fraud') = Len(fraud) + 1
           /\ fraud'[Len(fraud')].voter_id = q[1]
           /\ fraud'[Len(fraud')].attempted_booth_id = q[2])]_vars

\* the reader or matcher call of a request failed: the OCR reports no
\* success; the face matcher reports no success, cannot encode the capture, or
\* its comparison got no stored encoding and returned its error value; the
\* iris matcher reports no success, cannot make a template, or could process
\* neither eye
OcrFailed(ocr) == ocr.image /\ ~ocr.success
FaceMatcherFailed(stored, ev) ==
  LET fr == FaceResult(stored, ev)
      m == MatchFaceFromStorage(ev)
  IN \/ fr.error
     \/ ~fr.result.success
     \/ stored = NoTemplate /\ m.success /\ m.verified
IrisMatcherFailed(stored, ev) ==
  LET ir == IrisResult(stored, ev)
  IN \/ ir.error
     \/ ~ir.result.success
     \/ stored # NoTemplate /\ ev.detect /\ ~ev.left_eye.ok /\ ~ev.right_eye.ok

\* the reply of a failed call: an error (400), not the rejection (403), with
\* no session flag set, no ledger entry written and no FraudAttempt added
ReportedAsError ==
  /\ resp'.code = 400
  /\ voteRecords' = voteRecords /\ demo_storage' = demo_storage /\ fraud' = fraud

\* C23: a request whose reader or matcher call fails is never accepted: no
\* session flag is set, no ledger entry and no FraudAttempt is written, and
\* the reply is an error distinct from the threshold rejection.
C23_MatcherFailureIsError ==
  [][/\ \A q \in IdRequests :
          (/\ resp'.op = "verify_id" /\ resp'.voter = q[1] /\ q[1] # Blank
           /\ OcrFailed(q[3]) /\ VerifyVoterId(q[1], q[2], q[3]))
          => ReportedAsError
     /\ \A q \in FaceRequests :
          (/\ resp'.op = "verify_face" /\ resp'.voter = q[1] /\ q[1] \in Voters
           /\ ~IdStepMissing(voteRecords, FirstRecord(voteRecords, q[1]))
           /\ FaceMatcherFailed(voters[q[1]].face_encoding, q[2])
           /\ VerifyFace(q[1], q[2]))
          => ReportedAsError
     /\ \A q \in IrisRequests :
          (/\ resp'.op = "verify_iris" /\ resp'.voter = q[1] /\ q[1] \in Voters
           /\ ~FaceStepMissing(voteRecords, FirstRecord(voteRecords, q[1]))
           /\ IrisMatcherFailed(voters[q[1]].iris_template, q[2])
           /\ VerifyIris(q[1], q[2]))
          => ReportedAsError]_vars

MatcherReturned == resp.op = "verify_face_with_liveness" /\ resp.result.success

\* C25: the flags reported with a face result agree with the decision:
\* face_threshold_met is false exactly when the face confidence is below the
\* deciding threshold (0.94), liveness_threshold_met is false exactly when
\* the liveness score is below the deciding threshold (0.30), and
\* overall_passed implies both flags.
C25_ReportedFlagsMatchDecision ==
  MatcherReturned
  => /\ resp.details.face_threshold_met <=> resp.result.face_confidence >= FaceThreshold
     /\ resp.details.liveness_threshold_met <=> resp.result.liveness_score >= LivenessThreshold
     /\ resp.details.overall_passed
        => (resp.details.face_threshold_met /\ resp.details.liveness_threshold_met)

\* C26: in every branch of verify_face (stored encoding; no encoding but
\* matching reference images; encoding created from the capture) an in-order
\* request is accepted exactly when the face_confidence and liveness_score
\* reported for it satisfy face_confidence >= 0.94 and liveness_score >= 0.30.
C26_AcceptedIffReportedThresholds ==
  [][\A q \in FaceRequests :
       LET r == FaceResult(voters[q[1]].face_encoding, q[2]).result
       IN (/\ resp'.op = "verify_face" /\ resp'.voter = q[1]
           /\ FaceDecided(q[1], q[2]) /\ VerifyFace(q[1], q[2]))
          => (resp'.code = 200
              <=> (r.face_confidence >= FaceThreshold /\ r.liveness_score >= LivenessThreshold))]_vars

\* C27: for a voter without a stored encoding but with reference images, a
\* capture that match_face_from_storage reports as not matching them is never
\* accepted and never becomes the voter's stored encoding.
C27_UnmatchedCaptureNotEnrolled ==
  [][\A q \in FaceRequests :
       (/\ resp'.op = "verify_face" /\ resp'.voter = q[1] /\ q[1] \in Voters
        /\ ~IdStepMissing(voteRecords, FirstRecord(voteRecords, q[1]))
        /\ voters[q[1]].face_encoding = NoTemplate
        /\ MatchFaceFromStorage(q[2]).success /\ ~MatchFaceFromStorage(q[2]).verified
        /\ VerifyFace(q[1], q[2]))
       => (/\ resp'.code # 200
           /\ voters'[q[1]].face_encoding = NoTemplate
           /\ voteRecords' = voteRecords)]_vars

\* C28: the liveness score is a weighted sum capped at 1.0: whatever
\* liveness_data the client sends (any reported score included), the
\* liveness_score of the result lies in [0, 1] (0..1000 thousandths).
C28_LivenessScoreInUnitRange ==
  MatcherReturned => (resp.result.liveness_score >= 0 /\ resp.result.liveness_score <= 1000)

\* the acceptance rule in the claim's words: at least one eye was compared
\* with a distance below the per-eye threshold, and the highest confidence
\* (1 - distance) among those eyes exceeds the overall threshold
EyesVerified(ev) ==
  {e \in {ev.left_eye, ev.right_eye} : e.ok /\ e.distance < IrisEyeThreshold}
IrisRuleMet(ev) ==
  /\ ev.detect
  /\ EyesVerified(ev) # {}
  /\ \E e \in EyesVerified(ev) :
       /\ \A f \in EyesVerified(ev) : 100 - e.distance >= 100 - f.distance
       /\ 100 - e.distance > IrisThreshold

IrisRulePasses == {e \in IrisInputs : IrisRuleMet(e)}
IrisRuleFails == IrisInputs \ IrisRulePasses

\* C29: for a voter with a stored iris template an in-order verify_iris is
\* accepted exactly when one eye at least has a distance below 0.3 and the
\* highest confidence among the verified eyes exceeds 0.85; an acceptance
\* without that comparison happens only for a voter without stored template.
\* Stated per reply: a verify_iris step for a voter with a stored template
\* whose outcome (200 or not) differs from the rule's verdict on a capture e
\* is not the handling of e.
C29_IrisAcceptedIffRule ==
  [][resp'.op = "verify_iris"
     => \A v \in Requested :
          (/\ resp'.voter = v
           /\ ~FaceStepMissing(voteRecords, FirstRecord(voteRecords, v))
           /\ voters[v].iris_template # NoTemplate)
          => \A e \in (IF resp'.code = 200 THEN IrisRuleFails ELSE IrisRulePasses) :
               ~VerifyIris(v, e)]_vars

\* C29 witness: an accepted iris step of a voter whose enrolled template was
\* compared (the template is still the enrolled one)
C29_Witness ==
  /\ resp.op = "verify_iris" /\ resp.code = 200 /\ resp.voter = "v1"
  /\ voters["v1"].iris_template = Enrolled
  /\ Session("v1").iris_verified /\ demo_storage.vote["v1"].iris_verified

\* two identifiers are equal when case is ignored
Lower(x) ==
  CASE x = "V1" -> "v1" [] x = "V2" -> "v2" [] x = "V0" -> "v0" [] OTHER -> x
EqualIgnoringCase(a, b) == Lower(a) = Lower(b)

\* what the directory lookup and has_voted alone make of a request
LookupOutcome(voter_id, booth_id) ==
  IF ~VoterAt(voter_id, booth_id) THEN 404
  ELSE IF voters[voter_id].has_voted THEN 403
  ELSE 200

\* the reply code is not one the claim allows for request q: with an image,
\* the request got past the OCR gate (no 400) although the read failed or the
\* read id differs from the claimed one; without an image, the reply is not
\* the one the lookup and has_voted determine
IdOutcomeWrong(q, code) ==
  IF q[3].image
  THEN code # 400 /\ ~(q[3].success /\ EqualIgnoringCase(q[3].voter_id, q[1]))
  ELSE code # LookupOutcome(q[1], q[2])

\* C30: in verify_voter_id a request with an ID-card image gets past the OCR
\* gate only if the OCR succeeded and the extracted id equals the claimed
\* voter_id ignoring case; without an image the gate is skipped and the
\* outcome is the one of the directory lookup (voter_id, booth_id) and
\* has_voted. Stated per reply: a verify_id reply whose code is wrong for a
\* request q is not the reply to q.
C30_OcrGate ==
  [][resp'.op = "verify_id"
     => \A q \in IdRequests :
          (resp'.voter = q[1] /\ q[1] # Blank /\ IdOutcomeWrong(q, resp'.code))
          => ~VerifyVoterId(q[1], q[2], q[3])]_vars

\* C30 witness: verify_voter_id accepted for v1 at its booth: the session row
\* exists with id_verified and the ledger holds the id step
C30_Witness ==
  /\ resp.op = "verify_id" /\ resp.code = 200 /\ resp.voter = "v1"
  /\ HasSession("v1") /\ Session("v1").id_verified /\ ~Session("v1").face_verified
  /\ demo_storage.vote["v1"].id_verified

\* C31: a voter's stored face encoding and stored iris template are written
\* at most once and only while absent: no step changes a face encoding or an
\* iris template that the Voter row already holds.
C31_TemplateWrittenOnce ==
  [][\A v \in Voters :
       /\ voters[v].face_encoding # NoTemplate
          => voters'[v].face_encoding = voters[v].face_encoding
       /\ voters[v].iris_template # NoTemplate
          => voters'[v].iris_template = voters[v].iris_template]_vars

\* the captures that are passing evidence, by the template the voter row
\* holds: the matcher returns a result whose face confidence and liveness
\* score reach the thresholds (face), whose verified confidence exceeds the
\* threshold (iris)
FacePasses ==
  [t \in Templates |->
     {e \in FaceInputs : LET fr == FaceResult(t, e)
                         IN /\ ~fr.error /\ fr.result.success
                            /\ fr.result.face_confidence >= FaceThreshold
                            /\ fr.result.liveness_score >= LivenessThreshold}]
IrisPasses ==
  [t \in Templates |->
     {e \in IrisInputs : LET ir == IrisResult(t, e)
                         IN /\ ~ir.error /\ ir.result.success
                            /\ ir.result.verified /\ ir.result.confidence > IrisThreshold}]

\* C32: a rejected step can simply be retried. Whatever was rejected and
\* logged before, an in-order verify_face / verify_iris with passing evidence
\* is accepted (200) and sets the step's session flag, and a cast_vote on a
\* session with all three flags is accepted and marks the voter as voted.
\* Stated per reply: a reply to voter v's step in an in-order session that is
\* not such an acceptance is not the handling of any passing capture.
C32_RetryWithPassingEvidence ==
  [][/\ resp'.op = "verify_face"
        => \A v \in Requested :
             LET idx == FirstRecord(voteRecords, v)
             IN (/\ resp'.voter = v /\ ~IdStepMissing(voteRecords, idx)
                 /\ ~(resp'.code = 200 /\ voteRecords'[idx].face_verified))
                => \A e \in FacePasses[voters[v].face_encoding] : ~VerifyFace(v, e)
     /\ resp'.op = "verify_iris"
        => \A v \in Requested :
             LET idx == FirstRecord(voteRecords, v)
             IN (/\ resp'.voter = v /\ ~FaceStepMissing(voteRecords, idx)
                 /\ ~(resp'.code = 200 /\ voteRecords'[idx].iris_verified))
                => \A e \in IrisPasses[voters[v].iris_template] : ~VerifyIris(v, e)
     /\ resp'.op = "cast_vote"
        => \A v \in Requested :
             (/\ resp'.voter = v /\ ~IrisStepMissing(voteRecords, FirstRecord(voteRecords, v))
              /\ ~(resp'.code = 200 /\ voters'[v].has_voted))
             => ~CastVote(v)]_vars

\* C33: export_audit_trail is a read-only snapshot. The call leaves the
\* ledger storage as it was and what it returns contains every stored vote
\* record; and no later step changes what a reader finds in an export that
\* was returned before.
C33_ExportIsSnapshot ==
  [][\A t \in Auditors :
       /\ ExportAuditTrail(t)
          => /\ demo_storage' = demo_storage
             /\ ExportContents(threads'[t].export, demo_storage').vote_records
                  = {demo_storage.vote[v] : v \in DOMAIN demo_storage.vote}
       /\ (HoldsExport(t) /\ threads'[t] = threads[t])
          => ExportContents(threads'[t].export, demo_storage')
               = ExportContents(threads[t].export, demo_storage)]_vars

\* C34: whenever record_vote_verification returns success=false (the voter
\* has voted and the step is not vote_cast; vote_cast while a ledger flag is
\* false; a step name the ledger does not know), the ledger storage (vote
\* records, voter statuses and booth statistics) is exactly as it was before
\* the call. Stated per step: after a step that ends with the returned dict
\* saying success=false the storage is the one before the step.
C34_RefusalWritesNothing ==
  [][(resp'.op = "record_vote_verification" /\ ~resp'.success)
     => demo_storage' = demo_storage]_vars

\* C34 witness: a face_verification refused for a voter whose vote is
\* recorded; the ledger holds the voter's cast vote and counts it
C34_Witness ==
  /\ resp.op = "record_vote_verification" /\ ~resp.success
  /\ resp.step = "face_verification" /\ resp.voter = "v1"
  /\ LedgerHasVoted("v1") /\ LedgerVoteCast("v1")
  /\ TotalVotes(demo_storage, 1) = 1

\* the voters of booth b whose ledger status says has_voted
LedgerVotedAt(ds, b) ==
  {v \in DOMAIN ds.voter : ds.voter[v].has_voted /\ ds.voter[v].polling_booth_id = b}

\* C35: in every reachable state the ledger's total_votes of a booth equals
\* the number of distinct voters of that booth whose ledger status has
\* has_voted true.
C35_TotalVotesCountsVoters ==
  \A b \in Booths : TotalVotes(demo_storage, b) = Cardinality(LedgerVotedAt(demo_storage, b))

\* no request is being served
Quiescent == \A t \in Threads : threads[t].pc = "idle"

\* the ledger's entries of voter v say what the voter's session row and Voter
\* row say
LedgerAgrees(v) ==
  /\ HasVoteRecord(demo_storage, v)
  /\ demo_storage.vote[v].id_verified = Session(v).id_verified
  /\ demo_storage.vote[v].face_verified = Session(v).face_verified
  /\ demo_storage.vote[v].iris_verified = Session(v).iris_verified
  /\ LedgerHasVoted(v) = voters[v].has_voted

\* C36: whenever no request is in progress the ledger and the session store
\* agree: for every voter with a session the ledger record's id_verified,
\* face_verified and iris_verified equal the VoteRecord's flags and the
\* ledger's has_voted equals Voter.has_voted.
C36_LedgerAgreesWithSessions ==
  Quiescent => \A v \in Voters : HasSession(v) => LedgerAgrees(v)

\* C37: the integrity_verified field of an audit export is true only if
\* verify_vote_integrity returns true for every vote record contained in
\* that export (at the moment export_audit_trail returns it).
C37_IntegrityFlagIsChecked ==
  [][\A t \in Auditors :
       (ExportAuditTrail(t) /\ threads'[t].export.integrity_verified)
       => \A v \in threads'[t].export.vote_records : VerifyVoteIntegrity(demo_storage', v)]_vars

====
